---- MODULE Spec2Model ----
(***************************************************************************)
(* A model of data_preprocess.py: the field normalizers (string to number), *)
(* clean_and_derive_features (clean the columns, derive the three scores    *)
(* from percentile ranks, move Min_Aperture_F) and main (exists, load,     *)
(* clean, write).                                                          *)
(*                                                                         *)
(* Strings are sequences of one-character strings.  A float is an exact    *)
(* rational with a decimal exponent, num/den * 10^exp; rounding of binary  *)
(* floating point is not modelled.  A raised Python exception is a value   *)
(* whose kind is the exception's name.                                     *)
(***************************************************************************)
EXTENDS Integers, Sequences, FiniteSets, TLC

\* ------------------------------------------------------------------ values

Num(n, d, e) == [kind |-> "num", num |-> n, den |-> d, exp |-> e]
NaN == [kind |-> "nan", num |-> 0, den |-> 1, exp |-> 0]
Inf == [kind |-> "inf", num |-> 1, den |-> 1, exp |-> 0]
Raise(name) == [kind |-> name, num |-> 0, den |-> 1, exp |-> 0]

IsNum(v) == v.kind = "num"
IsNaN(v) == v.kind = "nan"
Raises(v) == v.kind \in {"ValueError", "KeyError"}

\* A raw field of a record: null/absent (pd.isna is true) or a string.
Absent == [na |-> TRUE, s |-> <<>>]
Str(s) == [na |-> FALSE, s |-> s]

\* f itself: a function TLC then computes once, not at every application
Eager(f) == CHOOSE g \in {f} : g = f

SetMin(S) == CHOOSE m \in S : \A x \in S : m <= x
SetMax(S) == CHOOSE m \in S : \A x \in S : x <= m

RECURSIVE Pow10(_)
Pow10(k) == IF k <= 0 THEN 1 ELSE 10 * Pow10(k - 1)

\* ----------------------------------------------------------------- strings

Digits == <<"0", "1", "2", "3", "4", "5", "6", "7", "8", "9">>
DigitSet == {"0", "1", "2", "3", "4", "5", "6", "7", "8", "9"}
IsDigit(c) == c \in DigitSet
DigitVal(c) == (CHOOSE k \in 1..10 : Digits[k] = c) - 1
IsNumChar(c) == IsDigit(c) \/ c = "."

\* The two character classes of the regular expressions: \d and [\d.].
InClass(cls, c) == IF cls = "d" THEN IsDigit(c) ELSE IsNumChar(c)

Upper == <<"A", "C", "E", "F", "K", "M", "S", "T", "V", "X">>
LowerOf == <<"a", "c", "e", "f", "k", "m", "s", "t", "v", "x">>
LowerChar(c) ==
    IF \E k \in 1..Len(Upper) : Upper[k] = c
    THEN LowerOf[CHOOSE k \in 1..Len(Upper) : Upper[k] = c]
    ELSE c
\* str.lower()
Lower(s) == Eager([i \in 1..Len(s) |-> LowerChar(s[i])])

\* str.strip(): leading and trailing whitespace removed
Strip(s) ==
    LET keep == {i \in 1..Len(s) : s[i] # " "}
    IN IF keep = {} THEN <<>> ELSE SubSeq(s, SetMin(keep), SetMax(keep))

\* str.replace(c, '') for a single character c
RemoveChar(s, c) == SelectSeq(s, LAMBDA x : x # c)

\* str.replace('cm', ''): non-overlapping occurrences, left to right
RECURSIVE RemoveCm(_)
RemoveCm(s) ==
    IF Len(s) < 2 THEN s
    ELSE IF s[1] = "c" /\ s[2] = "m" THEN RemoveCm(SubSeq(s, 3, Len(s)))
    ELSE <<s[1]>> \o RemoveCm(Tail(s))

\* sub in s
Contains(s, sub) ==
    \E i \in 1..(Len(s) - Len(sub) + 1) : SubSeq(s, i, i + Len(sub) - 1) = sub

\* s.split('/')[-1]: the text after the last '/'
AfterLastSlash(s) ==
    LET at == {i \in 1..Len(s) : s[i] = "/"}
    IN IF at = {} THEN s ELSE SubSeq(s, SetMax(at) + 1, Len(s))

\* ------------------------------------------------------- regular expressions

\* The maximal runs of a character class: where a greedy cls+ can match.
RunStarts(cls, s) ==
    {i \in 1..Len(s) : InClass(cls, s[i]) /\ (i = 1 \/ ~InClass(cls, s[i - 1]))}
\* The last position of the run that holds position i
RECURSIVE RunEnd(_, _, _)
RunEnd(cls, s, i) ==
    IF i < Len(s) /\ InClass(cls, s[i + 1]) THEN RunEnd(cls, s, i + 1) ELSE i
Run(cls, s, i) == SubSeq(s, i, RunEnd(cls, s, i))

RECURSIVE Ascending(_)
Ascending(S) ==
    IF S = {} THEN <<>> ELSE LET m == SetMin(S) IN <<m>> \o Ascending(S \ {m})

\* re.findall(r'(\d+)', s) and re.findall(r'[\d.]+', s): every maximal run
FindAll(cls, s) ==
    LET st == Ascending(RunStarts(cls, s))
    IN [k \in 1..Len(st) |-> Run(cls, s, st[k])]

\* re.findall(r'\d+\.\d+|\d+', s) scanning from position i: at a digit the
\* first alternative takes digits '.' digits when it can, else the digit run
RECURSIVE DimTokens(_, _)
DimTokens(s, i) ==
    IF i > Len(s) THEN <<>>
    ELSE IF ~IsDigit(s[i]) THEN DimTokens(s, i + 1)
    ELSE LET j == RunEnd("d", s, i)
             dec == j + 2 <= Len(s) /\ s[j + 1] = "." /\ IsDigit(s[j + 2])
             e == IF dec THEN RunEnd("d", s, j + 2) ELSE j
         IN <<SubSeq(s, i, e)>> \o DimTokens(s, e + 1)

\* ------------------------------------------------------------------ float()

RECURSIVE DigitsToInt(_)
DigitsToInt(s) ==
    IF s = <<>> THEN 0
    ELSE 10 * DigitsToInt(SubSeq(s, 1, Len(s) - 1)) + DigitVal(s[Len(s)])

\* float(tok) for a token of digits and dots (what [\d.]+ and \d+ match):
\* a ValueError unless it has a digit and at most one dot
ParseFloat(tok) ==
    LET dots == {i \in 1..Len(tok) : tok[i] = "."}
        digs == RemoveChar(tok, ".")
    IN IF Cardinality(dots) > 1 \/ digs = <<>> THEN Raise("ValueError")
       ELSE IF dots = {} THEN Num(DigitsToInt(tok), 1, 0)
       ELSE LET d == CHOOSE i \in dots : TRUE
            IN Num(DigitsToInt(digs), Pow10(Len(tok) - d), 0)

IsDigitDotToken(tok) == \A i \in 1..Len(tok) : IsNumChar(tok[i])
Unsigned(s) == IF s # <<>> /\ s[1] \in {"+", "-"} THEN Tail(s) ELSE s
Sign(s) == IF s # <<>> /\ s[1] = "-" THEN -1 ELSE 1

\* pd.to_numeric(s, errors='coerce') of a string: [sign] digits-and-one-dot
\* [e [sign] digits]; anything else (the empty string too) is coerced to NaN
ParseNumeric(s) ==
    LET es == {i \in 1..Len(s) : s[i] \in {"e", "E"}}
        cut == IF es = {} THEN Len(s) + 1 ELSE SetMin(es)
        mant == Unsigned(SubSeq(s, 1, cut - 1))
        expo == SubSeq(s, cut + 1, Len(s))
        m == IF IsDigitDotToken(mant) THEN ParseFloat(mant) ELSE NaN
        eOk == es = {} \/ (Unsigned(expo) # <<>>
                           /\ \A i \in 1..Len(Unsigned(expo)) : IsDigit(Unsigned(expo)[i]))
    IN IF ~IsNum(m) \/ ~eOk THEN NaN
       ELSE Num(Sign(s) * m.num, m.den,
                IF es = {} THEN 0 ELSE Sign(expo) * DigitsToInt(Unsigned(expo)))

\* ------------------------------------------------------------- normalizers

\* clean_weight
clean_weight(x) ==
    IF x.na THEN NaN
    ELSE LET s == Strip(RemoveChar(Lower(x.s), ","))
             m == FindAll("dd", s)
         IN IF m # <<>> THEN ParseFloat(m[1]) ELSE NaN

\* clean_max_iso
clean_max_iso(x) ==
    IF x.na THEN NaN
    ELSE LET numbers == FindAll("d", Strip(RemoveChar(x.s, ",")))
         IN IF numbers # <<>> THEN ParseFloat(numbers[Len(numbers)]) ELSE NaN

\* a/b < c/d for two "num" values (their exponents are 0 here)
NumLess(a, b) == a.num * b.den < b.num * a.den

\* min() of a non-empty list of floats: the first of the smallest
ListMin(vs) ==
    vs[SetMin({i \in 1..Len(vs) : \A j \in 1..Len(vs) : ~NumLess(vs[j], vs[i])})]

\* clean_aperture_f
clean_aperture_f(x) ==
    IF x.na THEN NaN
    ELSE LET toks == FindAll("dd", x.s)
             numbers == [k \in 1..Len(toks) |-> ParseFloat(toks[k])]
         IN IF \E k \in 1..Len(toks) : Raises(numbers[k]) THEN Raise("ValueError")
            ELSE IF numbers # <<>> THEN ListMin(numbers) ELSE NaN

\* clean_shutter_speed
clean_shutter_speed(x) ==
    IF x.na THEN NaN
    ELSE LET s == Strip(Lower(x.s))
         IN IF Contains(s, <<"/">>) /\ Contains(s, <<"s", "e", "c">>)
            THEN LET ds == FindAll("d", AfterLastSlash(s))
                     den == IF ds = <<>> THEN 0 ELSE DigitsToInt(ds[1])
                 IN \* IndexError and ZeroDivisionError end in the bare except
                    IF ds = <<>> \/ den = 0 THEN NaN ELSE Num(1, den, 0)
            ELSE LET m == FindAll("dd", s)
                 IN IF m # <<>> THEN ParseFloat(m[1]) ELSE NaN

SkipSpaces(s, p) ==
    SetMin({q \in p..(Len(s) + 1) : q > Len(s) \/ s[q] # " "})

\* re.search(r'[±+-]\s*([\d.]+)\s*EV', s) anchored at position i:
\* the end of the number's run when the pattern matches there, else 0
ExposureMatchAt(s, i) ==
    IF s[i] \notin {"±", "+", "-"} THEN 0
    ELSE LET p == SkipSpaces(s, i + 1)
         IN IF p > Len(s) \/ ~IsNumChar(s[p]) THEN 0
            ELSE LET q == RunEnd("dd", s, p)
                     r == SkipSpaces(s, q + 1)
                 IN IF r + 1 <= Len(s) /\ s[r] = "E" /\ s[r + 1] = "V" THEN q ELSE 0

\* clean_exposure_range
clean_exposure_range(x) ==
    IF x.na THEN NaN
    ELSE LET at == {i \in 1..Len(x.s) : ExposureMatchAt(x.s, i) > 0}
         IN IF at = {} THEN NaN
            ELSE LET i == SetMin(at)
                 IN ParseFloat(SubSeq(x.s, SkipSpaces(x.s, i + 1), ExposureMatchAt(x.s, i)))

\* clean_screen_res
clean_screen_res(x) ==
    IF x.na THEN NaN
    ELSE LET numbers == FindAll("d", Lower(RemoveChar(x.s, ",")))
         IN IF numbers # <<>> THEN ParseFloat(numbers[1]) ELSE NaN

\* clean_screen_size
clean_screen_size(x) ==
    IF x.na THEN NaN ELSE ParseNumeric(Strip(RemoveChar(x.s, "\"")))

\* float(match.group(1)) * 100
Times100(v) == IF IsNum(v) THEN Num(100 * v.num, v.den, v.exp) ELSE v

\* clean_focus_range
clean_focus_range(x) ==
    IF x.na THEN NaN
    ELSE LET s == Strip(RemoveCm(Lower(x.s)))
             \* r'([\d.]+)m': the first run that an 'm' follows
             ms == {i \in RunStarts("dd", s) :
                       RunEnd("dd", s, i) < Len(s) /\ s[RunEnd("dd", s, i) + 1] = "m"}
             all == FindAll("dd", s)
         IN IF ms # {} THEN Times100(ParseFloat(Run("dd", s, SetMin(ms))))
            ELSE IF all # <<>> THEN ParseFloat(all[1])
            ELSE NaN

\* clean_dimensions: (L, W, H)
clean_dimensions(x) ==
    IF x.na THEN <<NaN, NaN, NaN>>
    ELSE LET numbers == DimTokens(x.s, 1)
         IN IF Len(numbers) >= 3
            THEN <<ParseFloat(numbers[1]), ParseFloat(numbers[2]), ParseFloat(numbers[3])>>
            ELSE <<NaN, NaN, NaN>>

\* The nine field normalizers by name; the result is the tuple of numbers
\* returned (one, or three for clean_dimensions).
Normalizers ==
    {"clean_weight", "clean_max_iso", "clean_aperture_f", "clean_shutter_speed",
     "clean_exposure_range", "clean_screen_res", "clean_screen_size",
     "clean_focus_range", "clean_dimensions"}

Normalize(f, x) ==
    CASE f = "clean_weight" -> <<clean_weight(x)>>
      [] f = "clean_max_iso" -> <<clean_max_iso(x)>>
      [] f = "clean_aperture_f" -> <<clean_aperture_f(x)>>
      [] f = "clean_shutter_speed" -> <<clean_shutter_speed(x)>>
      [] f = "clean_exposure_range" -> <<clean_exposure_range(x)>>
      [] f = "clean_screen_res" -> <<clean_screen_res(x)>>
      [] f = "clean_screen_size" -> <<clean_screen_size(x)>>
      [] f = "clean_focus_range" -> <<clean_focus_range(x)>>
      [] f = "clean_dimensions" -> clean_dimensions(x)

\* ----------------------------------------------------------- float arithmetic

\* a < b for numbers (num/den * 10^exp, den > 0) and +inf; NaN never compares
Less(a, b) ==
    IF a.kind = "inf" THEN FALSE
    ELSE IF b.kind = "inf" THEN TRUE
    ELSE LET p == IF a.exp < b.exp THEN a.exp ELSE b.exp
         IN a.num * b.den * Pow10(a.exp - p) < b.num * a.den * Pow10(b.exp - p)

Same(a, b) == ~Less(a, b) /\ ~Less(b, a)

\* a * b; NaN propagates
Mul(a, b) ==
    IF IsNaN(a) \/ IsNaN(b) THEN NaN
    ELSE IF a.kind = "inf" \/ b.kind = "inf" THEN Inf
    ELSE Num(a.num * b.num, a.den * b.den, a.exp + b.exp)

\* a + b for numbers of exponent 0
Add(a, b) ==
    IF IsNaN(a) \/ IsNaN(b) THEN NaN
    ELSE Num(a.num * b.den + b.num * a.den, a.den * b.den, 0)

\* 1 / a elementwise on a Series: 1/NaN is NaN, 1/0 is inf
Recip(a) ==
    IF IsNaN(a) THEN NaN
    ELSE IF a.kind = "inf" THEN Num(0, 1, 0)
    ELSE IF a.num = 0 THEN Inf
    ELSE IF a.num < 0 THEN Num(-a.den, -a.num, -a.exp)
    ELSE Num(a.den, a.num, -a.exp)

\* A clip that forgets the lower bound.
ClipUpperOnly(v, lo, hi) ==
    IF IsNaN(v) THEN NaN
    ELSE IF Less(hi, v) THEN hi
    ELSE v

\* Series.clip(lo, hi); NaN stays NaN
Clip(v, lo, hi) ==
    IF IsNaN(v) THEN NaN
    ELSE IF Less(v, lo) THEN lo
    ELSE IF Less(hi, v) THEN hi
    ELSE v

\* ---------------------------------------------------------------- Series.rank

\* Series.rank(method='average', pct=True, ascending=asc, na_option=na) of a
\* column xs (a sequence of values), as pandas computes it: the values are
\* sorted (NaN first or last as na_option says, stably), the sort is
\* reversed for a descending rank, every group of equal values gets the
\* average of its 1-based positions, and the rank is divided by the number
\* of values ranked.

\* NaN takes the highest rank: ascending XOR (na_option == 'top')
NansRankHighest(asc, na) == (asc /\ na # "top") \/ (~asc /\ na = "top")

\* i sorts strictly before j in the stable lexsort on (mask, value)
SortsBefore(xs, hi, i, j) ==
    LET mi == IsNaN(xs[i])
        mj == IsNaN(xs[j])
    IN IF mi # mj THEN (IF hi THEN mj ELSE mi)
       ELSE IF ~mi /\ Less(xs[i], xs[j]) THEN TRUE
       ELSE IF ~mi /\ Less(xs[j], xs[i]) THEN FALSE
       ELSE i < j

\* The 1-based position of i in the sorted (and, descending, reversed) order
SortedPos(xs, asc, na, i) ==
    LET n == Len(xs)
        p == 1 + Cardinality({j \in 1..n : j # i /\ SortsBefore(xs, NansRankHighest(asc, na), j, i)})
    IN IF asc THEN p ELSE n + 1 - p

\* i and j are one group of equal values (the NaNs are one group)
Tied(xs, i, j) ==
    IF IsNaN(xs[i]) \/ IsNaN(xs[j]) THEN IsNaN(xs[i]) /\ IsNaN(xs[j])
    ELSE Same(xs[i], xs[j])

RECURSIVE SumOver(_, _)
SumOver(S, f) ==
    IF S = {} THEN 0 ELSE LET x == CHOOSE x \in S : TRUE IN f[x] + SumOver(S \ {x}, f)

\* Twice the rank of i under method='first': ties ranked in row order.
\* pos[j] is the sorted position of j.
Rank2First(xs, pos, i) == 2 * pos[i]

\* Twice the rank of i under method='max': the last position of its group.
Rank2Max(xs, pos, i) == 2 * SetMax({pos[j] : j \in {k \in 1..Len(xs) : Tied(xs, i, k)}})

\* Twice the average rank of i (a whole number): method='average', the
\* mean of the sorted positions of i's group
Rank2(xs, pos, i) ==
    LET grp == {j \in 1..Len(xs) : Tied(xs, i, j)}
    IN (2 * SumOver(grp, pos)) \div Cardinality(grp)

\* rank(pct=True) of a Series: each rank over the number of rows (the NaNs
\* are counted, na_option not being 'keep')
PctRanks(xs, asc, na) ==
    LET pos == Eager([j \in 1..Len(xs) |-> SortedPos(xs, asc, na, j)])
    IN Eager([i \in 1..Len(xs) |-> Num(Rank2(xs, pos, i), 2 * Len(xs), 0)])

\* ------------------------------------------------------------ the DataFrame

\* A DataFrame: its column names in order, and its rows, each a function
\* from the column names to cells.
Frame(cols, rows) == [columns |-> cols, rows |-> rows]
NoFrame == Frame(<<>>, <<>>)

ColSet(cols) == {cols[k] : k \in 1..Len(cols)}
HasCol(df, c) == c \in ColSet(df.columns)
\* list.index(c), 1-based
IndexOf(cols, c) == SetMin({k \in 1..Len(cols) : cols[k] = c})
\* df[c] = ...: a new column goes last, an existing one keeps its place
AppendNew(cols, c) == IF c \in ColSet(cols) THEN cols ELSE Append(cols, c)
\* df[c] as a sequence of cells
Column(df, c) == Eager([i \in 1..Len(df.rows) |-> df.rows[i][c]])

Bool(b) == [kind |-> "bool", num |-> IF b THEN 1 ELSE 0, den |-> 1, exp |-> 0]

\* Series.astype(str).str.contains('3840|4096|4K', case=False, na=False);
\* a null cell becomes the text 'nan' or 'None', which holds none of them
Supports4K(x) ==
    IF x.na THEN Bool(FALSE)
    ELSE LET s == Lower(x.s)
         IN Bool(\/ Contains(s, <<"3", "8", "4", "0">>)
                 \/ Contains(s, <<"4", "0", "9", "6">>)
                 \/ Contains(s, <<"4", "k">>))

\* pd.to_numeric(df[col], errors='coerce') of one cell
ToNumeric(x) == IF x.na THEN NaN ELSE ParseNumeric(x.s)

\* The statements of part A in program order: the column each reads and
\* the cleaned columns it writes.
CleanSteps ==
    << <<"Weight", {"Weight_g"}>>,
       <<"ISO", {"Max_ISO"}>>,
       <<"Min. shutter speed", {"Min_Shutter_Speed_Sec"}>>,
       <<"Max. shutter speed", {"Max_Shutter_Speed_Sec"}>>,
       <<"Exposure Compensation", {"Max_Exposure_Comp"}>>,
       <<"Screen resolution", {"Screen_Res_Dots"}>>,
       <<"Screen size", {"Screen_Size_in"}>>,
       <<"Normal focus range", {"Normal_Focus_cm"}>>,
       <<"Macro focus range", {"Macro_Focus_cm"}>>,
       <<"Max aperture", {"Min_Aperture_F"}>>,
       <<"Dimensions", {"Dim_L", "Dim_W", "Dim_H"}>>,
       <<"Max. video resolution", {"Supports_4K"}>>,
       <<"Total megapixels", {"Total megapixels"}>>,
       <<"Effective megapixels", {"Effective megapixels"}>>,
       <<"Megapixels", {"Megapixels"}>>,
       <<"Crop factor", {"Crop factor"}>> >>

\* What statement k does on df, cleaned holding the cells it computes: "ok",
\* or the exception it raises. df[col] of a column the frame lacks is a
\* KeyError; Series.apply lets the normalizer's exception through.
StepError(df, cleaned, k) ==
    IF ~HasCol(df, CleanSteps[k][1]) THEN "KeyError"
    ELSE IF \E i \in 1..Len(df.rows) : \E c \in CleanSteps[k][2] : Raises(cleaned.rows[i][c])
         THEN "ValueError"
    ELSE "ok"

\* df.rename(columns={...})
Renamed(c) ==
    CASE c = "Weight" -> "Weight_g"
      [] c = "ISO" -> "Max_ISO"
      [] c = "Min. shutter speed" -> "Min_Shutter_Speed_Sec"
      [] c = "Max. shutter speed" -> "Max_Shutter_Speed_Sec"
      [] c = "Exposure Compensation" -> "Max_Exposure_Comp"
      [] c = "Screen resolution" -> "Screen_Res_Dots"
      [] c = "Screen size" -> "Screen_Size_in"
      [] c = "Normal focus range" -> "Normal_Focus_cm"
      [] c = "Macro focus range" -> "Macro_Focus_cm"
      [] OTHER -> c

\* The raw column a derived column is computed from
SourceOf(c) ==
    CASE c = "Min_Aperture_F" -> "Max aperture"
      [] c \in {"Dim_L", "Dim_W", "Dim_H"} -> "Dimensions"
      [] c = "Supports_4K" -> "Max. video resolution"

\* The cell of cleaned column c for the raw row r
CleanCell(r, c) ==
    IF c \in {"Min_Aperture_F", "Dim_L", "Dim_W", "Dim_H", "Supports_4K"}
       /\ SourceOf(c) \notin DOMAIN r
    THEN Raise("KeyError")
    ELSE
    CASE c = "Weight_g" -> clean_weight(r["Weight"])
      [] c = "Max_ISO" -> clean_max_iso(r["ISO"])
      [] c = "Min_Shutter_Speed_Sec" -> clean_shutter_speed(r["Min. shutter speed"])
      [] c = "Max_Shutter_Speed_Sec" -> clean_shutter_speed(r["Max. shutter speed"])
      [] c = "Max_Exposure_Comp" -> clean_exposure_range(r["Exposure Compensation"])
      [] c = "Screen_Res_Dots" -> clean_screen_res(r["Screen resolution"])
      [] c = "Screen_Size_in" -> clean_screen_size(r["Screen size"])
      [] c = "Normal_Focus_cm" -> clean_focus_range(r["Normal focus range"])
      [] c = "Macro_Focus_cm" -> clean_focus_range(r["Macro focus range"])
      [] c = "Min_Aperture_F" -> clean_aperture_f(r["Max aperture"])
      [] c = "Dim_L" -> clean_dimensions(r["Dimensions"])[1]
      [] c = "Dim_W" -> clean_dimensions(r["Dimensions"])[2]
      [] c = "Dim_H" -> clean_dimensions(r["Dimensions"])[3]
      [] c = "Supports_4K" -> Supports4K(r["Max. video resolution"])
      [] c \in {"Total megapixels", "Effective megapixels", "Megapixels", "Crop factor"}
           -> ToNumeric(r[c])
      [] OTHER -> r[c]

\* Part A: the cleaned columns overwrite the raw ones, Min_Aperture_F, Dim_L,
\* Dim_W, Dim_H and Supports_4K are added. A cell whose computation raises
\* holds the exception.
CleanColumns(df) ==
    LET c1 == AppendNew(df.columns, "Min_Aperture_F")
        c2 == [k \in 1..Len(c1) |-> Renamed(c1[k])]
        c3 == AppendNew(AppendNew(AppendNew(c2, "Dim_L"), "Dim_W"), "Dim_H")
        c4 == AppendNew(c3, "Supports_4K")
    IN Frame(c4, Eager([i \in 1..Len(df.rows) |->
                           [c \in ColSet(c4) |-> CleanCell(df.rows[i], c)]]))

Weight(n, d) == Num(n, d, 0)
Hundred == Num(100, 1, 0)
ClipLow == Num(20, 1, 0)
ClipHigh == Num(100, 1, 0)

\* 1 / (df['Dim_L'] * df['Dim_W'] * df['Dim_H'])
InvVolume(df) ==
    Eager([i \in 1..Len(df.rows) |->
        Recip(Mul(Mul(df.rows[i]["Dim_L"], df.rows[i]["Dim_W"]), df.rows[i]["Dim_H"]))])

\* df['Aperture_Value'] = 1 / df['Min_Aperture_F']
ApertureValue(df) == Eager([i \in 1..Len(df.rows) |-> Recip(df.rows[i]["Min_Aperture_F"])])

\* The scores of the rows before the clip
RawPortability(df) ==
    LET w == PctRanks(Column(df, "Weight_g"), FALSE, "bottom")
        v == PctRanks(InvVolume(df), TRUE, "bottom")
    IN Eager([i \in 1..Len(df.rows) |->
                 Mul(Add(Mul(w[i], Weight(6, 10)), Mul(v[i], Weight(4, 10))), Hundred)])

RawLowLight(df) ==
    LET iso == PctRanks(Column(df, "Max_ISO"), TRUE, "top")
        ap == PctRanks(ApertureValue(df), TRUE, "top")
        crop == PctRanks(Column(df, "Crop factor"), FALSE, "top")
    IN Eager([i \in 1..Len(df.rows) |->
                 Mul(Add(Add(Mul(iso[i], Weight(5, 10)), Mul(ap[i], Weight(3, 10))),
                         Mul(crop[i], Weight(2, 10))),
                     Hundred)])

RawVideo(df) ==
    LET size == PctRanks(Column(df, "Screen_Size_in"), TRUE, "top")
        shutter == PctRanks(Column(df, "Max_Shutter_Speed_Sec"), TRUE, "top")
    IN Eager([i \in 1..Len(df.rows) |->
                 Mul(Add(Add(Mul(Num(df.rows[i]["Supports_4K"].num, 1, 0), Weight(4, 10)),
                             Mul(size[i], Weight(3, 10))),
                         Mul(shutter[i], Weight(3, 10))),
                     Hundred)])

\* Part B: the three scores, clipped, and Aperture_Value
DeriveScores(df) ==
    LET c1 == AppendNew(df.columns, "Portability_Score")
        c2 == AppendNew(c1, "Aperture_Value")
        c3 == AppendNew(c2, "LowLight_Score")
        c4 == AppendNew(c3, "Video_Score")
        portability == RawPortability(df)
        aperture == ApertureValue(df)
        lowlight == RawLowLight(df)
        video == RawVideo(df)
        cell(i, c) ==
            CASE c = "Portability_Score" -> Clip(portability[i], ClipLow, ClipHigh)
              [] c = "Aperture_Value" -> aperture[i]
              [] c = "LowLight_Score" -> Clip(lowlight[i], ClipLow, ClipHigh)
              [] c = "Video_Score" -> Clip(video[i], ClipLow, ClipHigh)
              [] OTHER -> df.rows[i][c]
    IN Frame(c4, Eager([i \in 1..Len(df.rows) |-> [c \in ColSet(c4) |-> cell(i, c)]]))

\* list.remove(x): the first x goes
ListRemove(cols, x) ==
    LET k == IndexOf(cols, x)
    IN SubSeq(cols, 1, k - 1) \o SubSeq(cols, k + 1, Len(cols))
\* list.insert(idx, x) with a 0-based idx; past the end it appends
ListInsert(cols, idx, x) ==
    LET k == IF idx > Len(cols) THEN Len(cols) ELSE idx
    IN SubSeq(cols, 1, k) \o <<x>> \o SubSeq(cols, k + 1, Len(cols))

\* The end of clean_and_derive_features: Min_Aperture_F is removed and
\* inserted at aperture_idx + 1, the index of 'Max aperture' taken before
\* the removal
ReorderColumns(cols) ==
    LET aperture_idx == IndexOf(cols, "Max aperture") - 1
    IN IF "Min_Aperture_F" \in ColSet(cols)
       THEN ListInsert(ListRemove(cols, "Min_Aperture_F"), aperture_idx + 1, "Min_Aperture_F")
       ELSE cols

\* clean_and_derive_features(df): the exception of the first statement that
\* raises, or the cleaned, scored and reordered frame
clean_and_derive_features(df) ==
    LET cleaned == CleanColumns(df)
        bad == {k \in 1..Len(CleanSteps) : StepError(df, cleaned, k) # "ok"}
    IN IF bad # {}
       THEN [status |-> StepError(df, cleaned, SetMin(bad)), frame |-> NoFrame]
       ELSE LET scored == DeriveScores(cleaned)
            IN [status |-> "ok",
                frame |-> Frame(ReorderColumns(scored.columns), scored.rows)]

\* -------------------------------------------------------------- the inputs

\* The columns of camera_data.json, in the order of its records' keys.
BaseColumns ==
    <<"Model", "Weight", "Dimensions", "ISO",
      "Max aperture", "Crop factor", "Screen size", "Screen resolution",
      "Min. shutter speed", "Max. shutter speed", "Exposure Compensation", "Normal focus range",
      "Macro focus range", "Max. video resolution", "Total megapixels", "Effective megapixels",
      "Megapixels">>

\* A well-formed record.
DefaultRow ==
    ("Model" :> Str(<<"A", "7">>)
     @@ "Weight" :> Str(<<"4", "0", "0", " ", "g">>)
     @@ "Dimensions" :> Str(<<"1", "2", " ", "x", " ", "8", " ", "x", " ", "4", " ", "m", "m">>)
     @@ "ISO" :> Str(<<"1", "0", "0", "-", "6", "4", "0", "0">>)
     @@ "Max aperture" :> Str(<<"F", "2", ".", "8", "-", "4">>)
     @@ "Crop factor" :> Str(<<"1", ".", "5">>)
     @@ "Screen size" :> Str(<<"3", "\"">>)
     @@ "Screen resolution" :> Str(<<"1", ",", "0", "4", "0", ",", "0", "0", "0">>)
     @@ "Min. shutter speed" :> Str(<<"3", "0", " ", "s", "e", "c">>)
     @@ "Max. shutter speed" :> Str(<<"1", "/", "4", "0", "0", "0", " ", "s", "e", "c">>)
     @@ "Exposure Compensation" :> Str(<<"±", "5", " ", "E", "V">>)
     @@ "Normal focus range" :> Str(<<"5", "0", "c", "m">>)
     @@ "Macro focus range" :> Str(<<"0", ".", "1", "m">>)
     @@ "Max. video resolution" :> Str(<<"1", "9", "2", "0", "x", "1", "0", "8", "0">>)
     @@ "Total megapixels" :> Str(<<"2", "5">>)
     @@ "Effective megapixels" :> Str(<<"2", "4">>)
     @@ "Megapixels" :> Str(<<"2", "4">>))

\* The raw values a field takes in the batches: null, well-formed values
\* (equal ones tie in a rank), values no number is read from, a zero.
WeightOptions == {Absent, Str(<<"4", "0", "0", " ", "g">>), Str(<<"1", ",", "2", "0", "0", " ", "g">>)}
DimensionsOptions == {Absent, Str(<<"1", "2", " ", "x", " ", "8", " ", "x", " ", "4", " ", "m", "m">>), Str(<<"6", " ", "x", " ", "4", " ", "x", " ", "2", ".", "5">>), Str(<<"0", " ", "x", " ", "8", " ", "x", " ", "4">>)}
IsoOptions == {Absent, Str(<<"1", "0", "0", "-", "2", "5", ",", "6", "0", "0">>)}
ApertureOptions == {Absent, Str(<<"F", "2", ".", "8", "-", "4">>), Str(<<"F", "1", ".", "8">>)}
CropOptions == {Absent, Str(<<"1", ".", "5">>)}
ScreenSizeOptions == {Absent, Str(<<"3", "\"">>), Str(<<"3", ".", "2">>)}
ShutterOptions == {Absent, Str(<<"1", "/", "4", "0", "0", "0", " ", "s", "e", "c">>)}
VideoOptions == {Str(<<"1", "9", "2", "0", "x", "1", "0", "8", "0">>), Str(<<"3", "8", "4", "0", "x", "2", "1", "6", "0">>)}

\* Records that differ in the inputs of one score.
PortabilityRows ==
    {[DefaultRow EXCEPT !["Weight"] = w, !["Dimensions"] = d] :
        w \in WeightOptions, d \in DimensionsOptions}
LowLightRows ==
    {[DefaultRow EXCEPT !["ISO"] = i, !["Max aperture"] = a, !["Crop factor"] = c] :
        i \in IsoOptions, a \in ApertureOptions, c \in CropOptions}
VideoRows ==
    {[DefaultRow EXCEPT !["Max. video resolution"] = v, !["Screen size"] = s,
                        !["Max. shutter speed"] = t] :
        v \in VideoOptions, s \in ScreenSizeOptions, t \in ShutterOptions}

\* Three whole records: the worst camera on every input of every score, the
\* best on every one, and one with every scored field null.
Bulky ==
    [DefaultRow EXCEPT !["Weight"] = Str(<<"1", ",", "2", "0", "0", " ", "g">>),
                       !["Dimensions"] = Str(<<"2", "0", " ", "x", " ", "1", "0", " ", "x", " ", "9">>),
                       !["ISO"] = Str(<<"1", "0", "0", "-", "1", "6", "0", "0">>),
                       !["Max aperture"] = Str(<<"F", "5", ".", "6">>),
                       !["Crop factor"] = Str(<<"2">>),
                       !["Screen size"] = Str(<<"2", ".", "5">>),
                       !["Max. shutter speed"] = Str(<<"1", "/", "5", "0", "0", " ", "s", "e", "c">>)]
Compact ==
    [DefaultRow EXCEPT !["Weight"] = Str(<<"3", "0", "0", " ", "g">>),
                       !["Dimensions"] = Str(<<"6", " ", "x", " ", "4", " ", "x", " ", "2", ".", "5">>),
                       !["ISO"] = Str(<<"1", "0", "0", "-", "2", "5", ",", "6", "0", "0">>),
                       !["Max aperture"] = Str(<<"F", "1", ".", "8">>),
                       !["Crop factor"] = Str(<<"1">>),
                       !["Screen size"] = Str(<<"3", ".", "2">>),
                       !["Max. shutter speed"] = Str(<<"3", "0", " ", "s", "e", "c">>),
                       !["Max. video resolution"] = Str(<<"4", "K">>)]
Blank ==
    [DefaultRow EXCEPT !["Weight"] = Absent, !["Dimensions"] = Absent, !["ISO"] = Absent,
                       !["Max aperture"] = Absent, !["Crop factor"] = Absent,
                       !["Screen size"] = Absent, !["Max. shutter speed"] = Absent,
                       !["Max. video resolution"] = Absent]
SampleRows == {Bulky, Compact, Blank}

\* Records with one badly formed field.
DirtyRows ==
    {[DefaultRow EXCEPT !["Weight"] = Str(<<"a", "p", "p", "r", "o", "x", ".", " ", "1", "2", "3", " ", "g">>)],
     [DefaultRow EXCEPT !["Weight"] = Str(<<"n", "/", "a">>)],
     [DefaultRow EXCEPT !["Normal focus range"] = Str(<<"a", "p", "p", "r", "o", "x", ".", " ", "5", "0", "c", "m">>)],
     [DefaultRow EXCEPT !["Max aperture"] = Str(<<"F", "2", ".", "8", ".">>)],
     [DefaultRow EXCEPT !["Min. shutter speed"] = Str(<<"1", "/", "s", "e", "c">>)],
     [DefaultRow EXCEPT !["Exposure Compensation"] = Str(<<"5", " ", "s", "t", "o", "p", "s">>)],
     [DefaultRow EXCEPT !["Crop factor"] = Str(<<"n", "/", "a">>)],
     DefaultRow}

\* The most records of a batch drawn from the rows of one score or from the
\* dirty rows, and the most drawn from the three sample records.
MaxRows == 2
MaxSampleRows == 6

\* The non-empty sequences of at most n elements of S
RECURSIVE SeqsUpTo(_, _)
SeqsUpTo(S, n) ==
    IF n = 0 THEN {<<>>}
    ELSE LET shorter == SeqsUpTo(S, n - 1)
         IN shorter \cup {Append(b, r) : b \in {x \in shorter : Len(x) = n - 1}, r \in S}
Batches(S, n) == SeqsUpTo(S, n) \ {<<>>}

\* The record batches of the input file, with the columns of BaseColumns.
RowBatches ==
    Batches(PortabilityRows, MaxRows) \cup Batches(LowLightRows, MaxRows)
    \cup Batches(VideoRows, MaxRows) \cup Batches(DirtyRows, MaxRows)
    \cup Batches(SampleRows, MaxSampleRows)

\* Column layouts: 'Max aperture' moved to position p, and the input's own
\* 'Min_Aperture_F' column, if it has one, at position q.
MoveTo(cols, c, p) ==
    LET rest == SelectSeq(cols, LAMBDA x : x # c)
    IN SubSeq(rest, 1, p - 1) \o <<c>> \o SubSeq(rest, p, Len(rest))
Layouts ==
    LET moved == {MoveTo(BaseColumns, "Max aperture", p) : p \in 1..Len(BaseColumns)}
    IN moved \cup {SubSeq(m, 1, q - 1) \o <<"Min_Aperture_F">> \o SubSeq(m, q, Len(m)) :
                      m \in moved, q \in 1..(Len(BaseColumns) + 1)}
\* Layouts of records that all lack one field.
LackingLayouts ==
    {SelectSeq(BaseColumns, LAMBDA x : x # c) : c \in ColSet(BaseColumns) \ {"Model"}}

\* DefaultRow with exactly the columns cols
RowFor(cols) ==
    [c \in ColSet(cols) |-> IF c = "Min_Aperture_F" THEN Str(<<"9">>) ELSE DefaultRow[c]]

\* What pd.read_json makes of a parseable file: the batches above, the two
\* default records under every layout, and the empty array (no columns).
Inputs ==
    {Frame(BaseColumns, b) : b \in RowBatches}
    \cup {Frame(l, <<RowFor(l), RowFor(l)>>) : l \in Layouts \cup LackingLayouts}
    \cup {NoFrame}

\* --------------------------------------------------------------------- main

VARIABLES
    file,      \* camera_data.json: whether it exists, parses, and what it holds
    pc,        \* where main is
    df,        \* the frame pd.read_json returned
    df_clean,  \* the frame clean_and_derive_features returned
    csv,       \* camera_data_clean3.csv
    printed,   \* the messages printed
    error,     \* the exception that left main, if one did
    raw,       \* a raw field given to a normalizer
    fn,        \* the normalizer applied to it
    result     \* what the normalizer returned

vars == <<file, pc, df, df_clean, csv, printed, error, raw, fn, result>>
mainVars == <<file, pc, df, df_clean, csv, printed, error>>
normVars == <<raw, fn, result>>

NotApplied == <<>>
\* The output file as the run finds it: absent, or left by an earlier run
OldCsv == [written |-> "before", frame |-> NoFrame]

Files ==
    {[exists |-> FALSE, parses |-> FALSE, frame |-> NoFrame],
     [exists |-> TRUE, parses |-> FALSE, frame |-> NoFrame]}
    \cup {[exists |-> TRUE, parses |-> TRUE, frame |-> f] : f \in Inputs}

NormIdle == raw = Absent /\ fn = "none" /\ result = NotApplied
MainIdle ==
    /\ file = [exists |-> FALSE, parses |-> FALSE, frame |-> NoFrame]
    /\ pc = "idle"
    /\ df = NoFrame
    /\ df_clean = NoFrame
    /\ csv = OldCsv
    /\ printed = <<>>
    /\ error = "none"

Init ==
    /\ file \in Files
    /\ pc = "start"
    /\ df = NoFrame
    /\ df_clean = NoFrame
    /\ csv = OldCsv
    /\ printed = <<>>
    /\ error = "none"
    /\ NormIdle

\* if not os.path.exists(INPUT_FILE): print(...); return
InputMissing ==
    /\ pc = "start"
    /\ ~file.exists
    /\ printed' = Append(printed, "input file not found")
    /\ pc' = "returned"
    /\ UNCHANGED <<file, df, df_clean, csv, error, normVars>>

InputFound ==
    /\ pc = "start"
    /\ file.exists
    /\ pc' = "load"
    /\ UNCHANGED <<file, df, df_clean, csv, printed, error, normVars>>

\* The except branch without its return: main goes on to the cleaning.
LoadFailsNoReturn ==
    /\ pc = "load"
    /\ ~file.parses
    /\ printed' = Append(printed, "loading the JSON file failed")
    /\ pc' = "clean"
    /\ UNCHANGED <<file, df, df_clean, csv, error, normVars>>

\* pd.read_json raises: except Exception: print(...); return
LoadFails ==
    /\ pc = "load"
    /\ ~file.parses
    /\ printed' = Append(printed, "loading the JSON file failed")
    /\ pc' = "returned"
    /\ UNCHANGED <<file, df, df_clean, csv, error, normVars>>

\* df = pd.read_json(INPUT_FILE)
LoadOk ==
    /\ pc = "load"
    /\ file.parses
    /\ df' = file.frame
    /\ pc' = "clean"
    /\ UNCHANGED <<file, df_clean, csv, printed, error, normVars>>

\* df_clean = clean_and_derive_features(df); an exception leaves main
Clean ==
    /\ pc = "clean"
    /\ LET r == clean_and_derive_features(df)
       IN IF r.status = "ok"
          THEN /\ df_clean' = r.frame
               /\ pc' = "write"
               /\ error' = error
          ELSE /\ df_clean' = df_clean
               /\ pc' = "raised"
               /\ error' = r.status
    /\ UNCHANGED <<file, df, csv, printed, normVars>>

\* df_clean.to_csv(OUTPUT_FILE, index=False); print(...)
Write ==
    /\ pc = "write"
    /\ csv' = [written |-> "now", frame |-> df_clean]
    /\ printed' = Append(printed, "saved")
    /\ pc' = "done"
    /\ UNCHANGED <<file, df, df_clean, error, normVars>>

Next ==
    \/ InputMissing
    \/ InputFound
    \/ LoadFails
    \/ LoadOk
    \/ Clean
    \/ Write

Spec == Init /\ [][Next]_vars

\* ------------------------------------------------------ properties of a run

ScoreColumns == {"Portability_Score", "LowLight_Score", "Video_Score"}
NRows == Len(df_clean.rows)

\* The ranked components of the scores: the column ranked, the direction and
\* the na_option of its rank.
Component(c, asc, na) == [col |-> c, asc |-> asc, na |-> na]
PortabilityComponents ==
    {Component("Weight_g", FALSE, "bottom"), Component("1/Volume", TRUE, "bottom")}
LowLightVideoComponents ==
    {Component("Max_ISO", TRUE, "top"), Component("Aperture_Value", TRUE, "top"),
     Component("Crop factor", FALSE, "top"), Component("Screen_Size_in", TRUE, "top"),
     Component("Max_Shutter_Speed_Sec", TRUE, "top")}
\* The values a component ranks, read from the cleaned frame
ValuesOf(k) == IF k.col = "1/Volume" THEN InvVolume(df_clean) ELSE Column(df_clean, k.col)
PctOf(k) == PctRanks(ValuesOf(k), k.asc, k.na)

InRange(v) == IsNum(v) /\ ~Less(v, ClipLow) /\ ~Less(ClipHigh, v)

\* C1: after clean_and_derive_features every row's Portability_Score,
\* LowLight_Score and Video_Score is a number (never missing) between 20
\* and 100, whatever mix of present, missing and unparseable fields the
\* batch holds.
C1_ScoresInRange ==
    pc \in {"write", "done"} =>
        \A i \in 1..NRows : \A c \in ScoreColumns : InRange(df_clean.rows[i][c])

\* A batch with a record of missing fields in which each of the three scores
\* was below 20 for some row before the clip and is 20 after it.
C1_Witness ==
    /\ pc = "write"
    /\ \E j \in 1..NRows : IsNaN(df_clean.rows[j]["Weight_g"]) /\ IsNaN(df_clean.rows[j]["Max_ISO"])
    /\ \E i \in 1..NRows :
          Less(RawPortability(df_clean)[i], ClipLow) /\ df_clean.rows[i]["Portability_Score"] = ClipLow
    /\ \E i \in 1..NRows :
          Less(RawLowLight(df_clean)[i], ClipLow) /\ df_clean.rows[i]["LowLight_Score"] = ClipLow
    /\ \E i \in 1..NRows :
          Less(RawVideo(df_clean)[i], ClipLow) /\ df_clean.rows[i]["Video_Score"] = ClipLow

\* C3: with an input file that does not exist or does not parse, main prints
\* its message and returns: it never reaches the cleaning or the write, no
\* exception leaves it, and the output file stays as it was.
C3_BadInputWritesNothing ==
    (~file.exists \/ ~file.parses) =>
        /\ pc \in {"start", "load", "returned"}
        /\ df_clean = NoFrame
        /\ csv = OldCsv
        /\ error = "none"
        /\ (pc = "returned" => Len(printed) = 1)
        /\ (pc # "returned" => ENABLED Next)

\* The run on a file that exists and does not parse has returned.
C3_Witness ==
    /\ file.exists
    /\ ~file.parses
    /\ pc = "returned"
    /\ printed = <<"loading the JSON file failed">>
    /\ csv = OldCsv

\* C4: once the file is loaded the run reaches the write step whatever the
\* records hold, and the CSV written has one data row per input record.
C4_LoadedRunReachesWrite ==
    (file.exists /\ file.parses) =>
        /\ pc # "raised"
        /\ (pc = "done" => Len(csv.frame.rows) = Len(file.frame.rows))

SwapFirstTwo(s) == IF Len(s) < 2 THEN s ELSE <<s[2], s[1]>> \o SubSeq(s, 3, Len(s))
Rotate(s) == IF s = <<>> THEN s ELSE Tail(s) \o <<Head(s)>>
Scores(f) ==
    [i \in 1..Len(f.rows) |->
        <<f.rows[i]["Portability_Score"], f.rows[i]["LowLight_Score"], f.rows[i]["Video_Score"]>>]
ScoresOfRun(rows) == Scores(clean_and_derive_features(Frame(df.columns, rows)).frame)

\* C5: reordering the rows of the batch leaves every record's three scores
\* as they were. The run on the batch with its first two rows swapped, and
\* the run on the batch rotated by one row, give each record the scores of
\* this run; the two reorderings generate every permutation, and the
\* batches are closed under them.
C5_ScoresIgnoreRowOrder ==
    pc = "write" =>
        /\ ScoresOfRun(SwapFirstTwo(df.rows)) = SwapFirstTwo(Scores(df_clean))
        /\ ScoresOfRun(Rotate(df.rows)) = Rotate(Scores(df_clean))

\* A batch of three or more records, two of them equal (a tie) and the
\* first two with different scores.
C5_Witness ==
    /\ pc = "write"
    /\ NRows >= 3
    /\ \E i, j \in 1..NRows : i # j /\ df.rows[i] = df.rows[j]
    /\ Scores(df_clean)[1] # Scores(df_clean)[2]

\* C6: in every ranked component of LowLight and Video a record whose value
\* is missing gets a percentile rank at least as high as every record
\* whose value is present.
C6_MissingRanksBest ==
    pc = "write" =>
        \A k \in LowLightVideoComponents :
            LET xs == ValuesOf(k)
                pct == PctOf(k)
            IN \A i, j \in 1..NRows :
                  (IsNaN(xs[i]) /\ ~IsNaN(xs[j])) => ~Less(pct[i], pct[j])

\* C7: in the two ranked components of Portability a record whose weight
\* (or volume) is missing gets a percentile rank no higher than any record
\* whose weight (or volume) is present.
C7_MissingRanksWorst ==
    pc = "write" =>
        \A k \in PortabilityComponents :
            LET xs == ValuesOf(k)
                pct == PctOf(k)
            IN \A i, j \in 1..NRows :
                  (IsNaN(xs[i]) /\ ~IsNaN(xs[j])) => ~Less(pct[j], pct[i])

\* j is ranked strictly before i: its value is smaller (descending: larger),
\* a missing value coming first under na_option 'top', last under 'bottom'
Precedes(xs, asc, na, j, i) ==
    IF IsNaN(xs[j]) /\ IsNaN(xs[i]) THEN FALSE
    ELSE IF IsNaN(xs[j]) THEN na = "top"
    ELSE IF IsNaN(xs[i]) THEN na = "bottom"
    ELSE IF asc THEN Less(xs[j], xs[i])
    ELSE Less(xs[i], xs[j])
NBefore(xs, k, i) == Cardinality({j \in 1..Len(xs) : Precedes(xs, k.asc, k.na, j, i)})
NTied(xs, i) == Cardinality({j \in 1..Len(xs) : Tied(xs, i, j)})

\* C8 as stated: every component's percentile rank is the fraction of the
\* records of the batch whose value is less than or equal to the record's
\* (descending: greater or equal), ties included, and lies in (0, 1].
C8_PctIsFractionAtOrBelow ==
    pc = "write" =>
        \A k \in PortabilityComponents \cup LowLightVideoComponents :
            LET xs == ValuesOf(k)
                pct == PctOf(k)
            IN \A i \in 1..NRows :
                  /\ pct[i].num * NRows = (NBefore(xs, k, i) + NTied(xs, i)) * pct[i].den
                  /\ 0 < pct[i].num
                  /\ pct[i].num <= pct[i].den

\* C8 amended: every component's percentile rank is the average rank over
\* the number of records: (records ranked strictly before + (records tied
\* with it, itself included, + 1) / 2) / N. It is the fraction of records
\* at or below the record's value when no other record shares the value,
\* and it lies in (0, 1].
C8_PctIsAverageRank ==
    pc = "write" =>
        \A k \in PortabilityComponents \cup LowLightVideoComponents :
            LET xs == ValuesOf(k)
                pct == PctOf(k)
            IN \A i \in 1..NRows :
                  /\ pct[i].den = 2 * NRows
                  /\ pct[i].num = 2 * NBefore(xs, k, i) + NTied(xs, i) + 1
                  /\ (NTied(xs, i) = 1 => pct[i].num = 2 * (NBefore(xs, k, i) + 1))
                  /\ 0 < pct[i].num
                  /\ pct[i].num <= pct[i].den

\* A batch in which two records tie on a present weight, below a third
\* record and beside one with a missing weight.
C8_Witness ==
    /\ pc = "write"
    /\ LET k == Component("Weight_g", FALSE, "bottom")
           xs == ValuesOf(k)
       IN \E i, j, l, m \in 1..NRows :
             /\ i # j
             /\ ~IsNaN(xs[i])
             /\ Tied(xs, i, j)
             /\ Precedes(xs, k.asc, k.na, l, i)
             /\ IsNaN(xs[m])

\* C10: after the reorder Min_Aperture_F stands one position after
\* 'Max aperture', the other columns keep their relative order, and no
\* column is added, dropped or duplicated, for every input layout.
C10_MinApertureFollowsMaxAperture ==
    pc = "write" =>
        LET cols == df_clean.columns
            before == DeriveScores(CleanColumns(df)).columns
            others(s) == SelectSeq(s, LAMBDA x : x # "Min_Aperture_F")
        IN /\ IndexOf(cols, "Min_Aperture_F") = IndexOf(cols, "Max aperture") + 1
           /\ others(cols) = others(before)
           /\ Len(cols) = Len(before)
           /\ ColSet(cols) = ColSet(before)

\* ------------------------------------------------- the normalizers on strings

\* The longest string typed character by character, and its alphabet.
MaxLen == 4
Alphabet == {"0", "4", ".", "/", " ", "m", "s", "e", "c", "+", "E", "V"}

\* The strings the documentation of the fields gives as examples.
Examples ==
    {<<"1", "/", "4", "0", "0", "0", " ", "s", "e", "c">>,
     <<"3", "0", " ", "s", "e", "c">>,
     <<"1", "/", "s", "e", "c">>,
     <<"1", "/", "0", " ", "s", "e", "c">>,
     <<"1", "/", "8", "0", "0", "0", " ", "S", "E", "C">>,
     <<"a", "p", "p", "r", "o", "x", ".", " ", "1", "2", "3", " ", "g">>,
     <<"1", ",", "2", "0", "0", " ", "g">>,
     <<"1", "5", "0", "c", "m">>,
     <<"1", ".", "5", "m">>,
     <<"1", "2", "0", " ", "x", " ", "8", "0", " ", "x", " ", "4", "5", " ", "m", "m">>,
     <<"1", "2", "0", " ", "x", " ", "8", "0">>,
     <<"3", ".", "8", "4", " ", "x", " ", "2", ".", "3", "4", " ", "x", " ", "1", ".", "2">>,
     <<"±", "5", " ", "E", "V">>,
     <<"5", " ", "s", "t", "o", "p", "s">>,
     <<"2", "4", "-", "7", "0", "m", "m", " ", "F", "2", ".", "8", "-", "4">>,
     <<"1", "0", "0", "-", "2", "5", ",", "6", "0", "0">>,
     <<"3", "\"">>}

NormInit ==
    /\ raw \in {Absent, Str(<<>>)} \cup {Str(s) : s \in Examples}
    /\ fn = "none"
    /\ result = NotApplied
    /\ MainIdle

\* One more character of the raw field.
Type(c) ==
    /\ fn = "none"
    /\ ~raw.na
    /\ Len(raw.s) < MaxLen
    /\ raw' = Str(Append(raw.s, c))
    /\ UNCHANGED <<fn, result, mainVars>>

\* One normalizer applied to the raw field.
Apply(f) ==
    /\ fn = "none"
    /\ fn' = f
    /\ result' = Normalize(f, raw)
    /\ UNCHANGED <<raw, mainVars>>

NormNext ==
    \/ \E c \in Alphabet : Type(c)
    \/ \E f \in Normalizers : Apply(f)

NormSpec == NormInit /\ [][NormNext]_vars

\* ---------------------------------------------- properties of the normalizers

\* C2: every normalizer returns a number or the missing value for every
\* input, null or any string; none raises.
C2_NormalizersTotal ==
    fn # "none" => \A m \in 1..Len(result) : result[m].kind \in {"num", "nan"}

HasDigit(s) == \E i \in 1..Len(s) : IsDigit(s[i])

\* C9: clean_shutter_speed reads a string with a '/' and 'sec' as a
\* fraction, the reciprocal of the first integer run after the slash, and a
\* fraction without digits or with a zero denominator is missing; any other
\* string gives its first decimal number, or missing when it has none.
C9_ShutterSpeed ==
    (fn = "clean_shutter_speed" /\ ~raw.na) =>
        LET s == Strip(Lower(raw.s))
            den == AfterLastSlash(s)
        IN IF Contains(s, <<"/">>) /\ Contains(s, <<"s", "e", "c">>)
           THEN IF HasDigit(den) /\ DigitsToInt(FindAll("d", den)[1]) # 0
                THEN result[1] = Num(1, DigitsToInt(FindAll("d", den)[1]), 0)
                ELSE result[1] = NaN
           ELSE IF HasDigit(s) THEN IsNum(result[1])
           ELSE result[1] = NaN
====
